---- MODULE Spec2Model ----
(***************************************************************************)
(* Model of the FastAPI + Supabase template: the token dependencies of     *)
(* src/supabase/deps.py (HTTPBearer scheme, get_db, get_current_user,      *)
(* has_roles), the item endpoints of src/item/api_v1/endpoints.py and the  *)
(* client start-up of src/core/lifespan.py.                                *)
(*                                                                         *)
(* Every request is handled by an asyncio task.  A task runs without       *)
(* interruption between two awaits on network I/O, so one action of the    *)
(* model is the code between two such awaits; the call to the auth         *)
(* provider and every call to the "items" table is one atomic step of the  *)
(* external service.  The table is modelled as the set of its rows with a  *)
(* primary key on id and a server-side id generator; no row-level policy   *)
(* is defined anywhere in the source, so none is modelled: the properties  *)
(* below are about the checks the endpoints make themselves.               *)
(***************************************************************************)
EXTENDS Integers, FiniteSets, Sequences, TLC

\* ---------------------------------------------------------------- bounds
\* Number of ids the table's id generator hands out.
MaxItems == 2

ItemIds == 1..MaxItems

\* The request-handling tasks that may be in flight at the same time; a task
\* that has answered takes the next request.
Reqs == {"r1", "r2"}

\* Field values a client sends.
Titles == {"t1"}
NULL == "NULL"
Descriptions == {NULL, "d1"}

\* ------------------------------------------------------- auth provider
\* class UserRole(str, Enum)
UserRole == {"admin", "user", "guest"}

\* A user_metadata value of the provider's user record: None, or a map.
\* `keys` is the map's key set and `roles` the value under "roles".
NoMetadata == [none |-> TRUE, keys |-> {}, roles |-> {}]
Metadata(ks, rs) == [none |-> FALSE, keys |-> ks, roles |-> rs]

\* Bearer tokens a client may present.  NoToken is a request without an
\* Authorization: Bearer header; "bad" is a token the provider rejects.
NoToken == "none"
ValidTokens == {"tok_alice", "tok_bob", "tok_carol", "tok_dave"}
Tokens == ValidTokens \cup {"bad"}
\* Tokens presented to the item routes.
ItemTokens == {"tok_alice", "tok_bob", "bad"}

\* The accounts held by the auth provider, by the token that belongs to them.
Accounts ==
  [t \in ValidTokens |->
     CASE t = "tok_alice" -> [id |-> "alice", user_metadata |-> Metadata({"roles"}, {"user"})]
       [] t = "tok_bob"   -> [id |-> "bob", user_metadata |-> Metadata({"roles", "is_superuser"}, {"user", "admin"})]
       [] t = "tok_carol" -> [id |-> "carol", user_metadata |-> Metadata({}, {})]
       [] t = "tok_dave"  -> [id |-> "dave", user_metadata |-> NoMetadata]]

UserIds == {Accounts[t].id : t \in ValidTokens}

\* super_client.auth.get_user(jwt): the user record of the token, or an
\* AuthApiError for a token the provider does not accept.
ProviderGetUser(tok) ==
  IF tok \in ValidTokens THEN [raises |-> FALSE, user |-> Accounts[tok]]
  ELSE [raises |-> TRUE, user |-> [id |-> "", user_metadata |-> NoMetadata]]

\* user_metadata.get("roles", default): AttributeError on None.
MetadataGetRoles(meta, default) ==
  IF meta.none THEN [raises |-> TRUE, value |-> {}]
  ELSE IF "roles" \in meta.keys THEN [raises |-> FALSE, value |-> meta.roles]
  ELSE [raises |-> FALSE, value |-> default]

NoUser == [id |-> "", roles |-> {}]

\* The body of get_current_user after the handle check: look the token up,
\* build UserIn(id, email, roles); every exception becomes a 401.
GetCurrentUser(tok) ==
  LET resp == ProviderGetUser(tok)
      roles == MetadataGetRoles(resp.user.user_metadata, {})
  IN IF resp.raises THEN [status |-> 401, user |-> NoUser]
     ELSE IF roles.raises THEN [status |-> 401, user |-> NoUser]
     ELSE [status |-> 200, user |-> [id |-> resp.user.id, roles |-> roles.value]]

ValidateRoles_All(user, roles) ==
  IF \A role \in roles : role \in user.roles THEN 200 ELSE 403

\* SupabaseAuthService.validate_roles: any(role in user.roles for role in roles)
ValidateRoles(user, roles) ==
  IF \E role \in roles : role \in user.roles THEN 200 ELSE 403

DependencyPassed_Always(status) == TRUE

\* Depends(get_current_user): the HTTPException raised by the dependency
\* ends the request; what depends on it runs only when it returned.
DependencyPassed(status) == status = 200

\* ------------------------------------------------------------ endpoints
\* `except Exception` of every item handler: whatever was raised inside the
\* try block, HTTPException included, leaves as a 500.
HandlerExcept(raised) == 500

\* HTTPBearer(auto_error=True) on a request without bearer credentials:
\* the framework answers 403 or 401 depending on its release.
NotAuthenticated == {401, 403}

ItemKinds == {"create_item", "read_items", "read_item", "update_item", "delete_item"}

\* ItemCreate.model_dump(): title, description, user_id
CreateBodies == [title : Titles, description : Descriptions, user_id : UserIds \cup {NULL}]
\* ItemUpdate.model_dump(): id, title, description (id is the field of its
\* base class that CRUDBase.update reads as obj_in.id and that the class's
\* own example carries).  Ids are generated by the table, so a client names
\* only ids the table has already handed out.
UpdateBodies(issued) == [id : issued, title : Titles, description : Descriptions]

\* The representation of a row returned to the client: Item(**row).
Item(row) == [id |-> row.id, title |-> row.title,
              description |-> row.description, user_id |-> row.user_id]

\* A task not handling POST /auth/token.
NoCredentials == [username |-> "", password |-> ""]
IdleLogin == [pc |-> "idle", creds |-> NoCredentials, outcome |-> "", status |-> 0,
              access_token |-> ""]
\* A field the caller left out of a pydantic model.
ABSENT == "ABSENT"
\* No argument of a repository call, and no earlier create to remember.
NoInput == [id |-> 0, title |-> ABSENT, description |-> ABSENT, user_id |-> ABSENT]
NoLast == [id |-> 0, input |-> NoInput]
\* No repository call in progress.
IdleCrud == [pc |-> "ready", op |-> "", input |-> NoInput, trips |-> 0, error |-> "",
             result |-> {}, last |-> NoLast]
\* create_superuser not running.
IdleSu == [pc |-> "idle", accounts |-> {}, existed |-> FALSE, called |-> FALSE,
           runs |-> 0]

IdleReq == [pc |-> "idle", route |-> "", token |-> NoToken, required |-> {},
            user |-> NoUser, kind |-> "", item_id |-> 0, status |-> 0, data |-> {}]

VARIABLES
  lifespan,        \* "startup", "serving", "stopping", "stopped" or "failed"
  super_client,    \* the process-wide client handle is set
  postgrest_auth,  \* Authorization token held by super_client.postgrest
  items,           \* rows of the "items" table
  next_id,         \* next id the table's id generator hands out
  req,             \* the request handled by each task
  login,           \* the POST /auth/token request handled by each task
  crud,            \* the call of the generic repository in progress
  su,              \* the superuser account and the create_superuser run
  life             \* how often the handle was initialized and closed

vars == <<lifespan, super_client, postgrest_auth, items, next_id, req, login, crud, su, life>>

\* The state outside the item and role-gate routes.
aux == <<login, crud, su, life>>

Init ==
  /\ lifespan = "startup"
  /\ super_client = FALSE
  /\ postgrest_auth = NoToken
  /\ items = {}
  /\ next_id = 1
  /\ req = [r \in Reqs |-> IdleReq]
  /\ login = [r \in Reqs |-> IdleLogin]
  /\ crud = IdleCrud
  /\ su = IdleSu
  /\ life = [inits |-> 0, closes |-> 0]

\* The response of a finished request: its status and the rows it carries.
Done(route, kind, tok, st, rows) ==
  [IdleReq EXCEPT !.pc = "done", !.route = route, !.kind = kind, !.token = tok,
                  !.status = st, !.data = rows]

\* init_super_client without its `global super_client` statement.
init_super_client_local ==
  /\ lifespan = "startup"
  /\ lifespan' = "serving"
  /\ life' = [life EXCEPT !.inits = @ + 1]
  /\ UNCHANGED <<super_client, postgrest_auth, items, next_id, req, login, crud, su>>

\* lifespan(): await init_super_client() sets the global handle.
init_super_client ==
  /\ lifespan = "startup"
  /\ lifespan' = "serving"
  /\ super_client' = TRUE
  /\ life' = [life EXCEPT !.inits = @ + 1]
  /\ UNCHANGED <<postgrest_auth, items, next_id, req, login, crud, su>>

\* create_client raises: init_super_client re-raises and the app does not start.
init_super_client_fails ==
  /\ lifespan = "startup"
  /\ lifespan' = "failed"
  /\ UNCHANGED <<super_client, postgrest_auth, items, next_id, req>>
  /\ UNCHANGED aux

\* A request for one of the item routes arrives.  Its dependencies run in
\* parameter order: Security(security), get_db, then get_current_user up to
\* its await on the auth provider.
item_request(r) ==
  /\ lifespan = "serving"
  /\ req[r].pc = "idle"
  /\ \E tok \in ItemTokens \cup {NoToken} :
       IF tok = NoToken
       THEN /\ \E st \in NotAuthenticated :
                 req' = [req EXCEPT ![r] = Done("items", "", tok, st, {})]
            /\ UNCHANGED postgrest_auth
       ELSE IF ~super_client
       THEN /\ req' = [req EXCEPT ![r] = Done("items", "", tok, 500, {})]
            /\ UNCHANGED postgrest_auth
       ELSE /\ postgrest_auth' = tok
            /\ req' = [req EXCEPT ![r] = [IdleReq EXCEPT !.pc = "get_user",
                                            !.route = "items", !.token = tok]]
  /\ UNCHANGED <<lifespan, super_client, items, next_id>>
  /\ UNCHANGED aux

\* A request for a route guarded by Depends(has_roles(*roles)) arrives:
\* Security(security), then get_current_user up to its await.
gated_request(r) ==
  /\ lifespan = "serving"
  /\ req[r].pc = "idle"
  /\ \E tok \in Tokens \cup {NoToken}, roles \in SUBSET UserRole :
       IF tok = NoToken
       THEN \E st \in NotAuthenticated :
              req' = [req EXCEPT ![r] = Done("gated", "", tok, st, {})]
       ELSE IF ~super_client
       THEN req' = [req EXCEPT ![r] = Done("gated", "", tok, 401, {})]
       ELSE req' = [req EXCEPT ![r] = [IdleReq EXCEPT !.pc = "get_user", !.route = "gated",
                                        !.token = tok, !.required = roles]]
  /\ UNCHANGED <<lifespan, super_client, postgrest_auth, items, next_id>>
  /\ UNCHANGED aux

\* get_current_user resumes with the provider's answer.  On success the
\* next dependency or the handler runs up to its first await: an item
\* handler sends its first query to the table, the role gate calls
\* get_auth_service.
get_current_user(r) ==
  /\ req[r].pc = "get_user"
  /\ LET res == GetCurrentUser(req[r].token) IN
       IF ~DependencyPassed(res.status)
       THEN req' = [req EXCEPT ![r] = Done(req[r].route, "", req[r].token, res.status, {})]
       ELSE IF req[r].route = "gated"
       THEN req' = [req EXCEPT ![r].pc = "auth_service", ![r].user = res.user]
       ELSE \E k \in ItemKinds, id \in ItemIds :
              /\ k \in {"create_item", "read_items"} => id = 1
              /\ req' = [req EXCEPT ![r].pc = "handler", ![r].user = res.user, ![r].kind = k,
                                    ![r].item_id = IF k \in {"create_item", "read_items"} THEN 0 ELSE id]
  /\ UNCHANGED <<lifespan, super_client, postgrest_auth, items, next_id>>
  /\ UNCHANGED aux

\* ------------------------------------------------- the "items" table
\* .select("*").eq("id", id).eq("user_id", uid)
SelectOwned(rows, id, uid) == {row \in rows : row.id = id /\ row.user_id = uid}
\* .select("*").eq("user_id", uid)
SelectByOwner(rows, uid) == {row \in rows : row.user_id = uid}
\* .eq("id", id) of update and delete
SelectById(rows, id) == {row \in rows : row.id = id}

CreateData_NoOverride(body, user) == body

\* data = item_in.model_dump(); data["user_id"] = current_user.id
CreateData(body, user) == [body EXCEPT !.user_id = user.id]

\* POST /items: insert the row; the table assigns a fresh id.
create_item(r) ==
  /\ req[r].pc = "handler" /\ req[r].kind = "create_item"
  /\ next_id <= MaxItems
  /\ next_id' = next_id + 1
  /\ \E body \in CreateBodies :
       LET data == CreateData(body, req[r].user)
           row == [id |-> next_id, title |-> data.title, description |-> data.description,
                   user_id |-> data.user_id, creator |-> req[r].user.id]
       IN /\ items' = items \cup {row}
          /\ req' = [req EXCEPT ![r] = Done("items", "create_item", req[r].token,
                                            200, {Item(row)})]
  /\ UNCHANGED <<lifespan, super_client, postgrest_auth>>
  /\ UNCHANGED aux

\* GET /items: the rows whose user_id is the caller's id.
read_items(r) ==
  /\ req[r].pc = "handler" /\ req[r].kind = "read_items"
  /\ req' = [req EXCEPT ![r] = Done("items", "read_items", req[r].token, 200,
                                    {Item(row) : row \in SelectByOwner(items, req[r].user.id)})]
  /\ UNCHANGED <<lifespan, super_client, postgrest_auth, items, next_id>>
  /\ UNCHANGED aux

\* GET /items/{item_id}: .single() raises when no row matches, and the
\* 404 of the handler is raised inside the same try block.
read_item(r) ==
  /\ req[r].pc = "handler" /\ req[r].kind = "read_item"
  /\ LET found == SelectOwned(items, req[r].item_id, req[r].user.id) IN
       req' = [req EXCEPT ![r] =
                 IF found = {}
                 THEN Done("items", "read_item", req[r].token, HandlerExcept(404), {})
                 ELSE Done("items", "read_item", req[r].token, 200, {Item(row) : row \in found})]
  /\ UNCHANGED <<lifespan, super_client, postgrest_auth, items, next_id>>
  /\ UNCHANGED aux

\* PUT and DELETE /items/{item_id}, first query: "Verify item belongs to
\* user".  When a row is found the handler sends its second query.
verify_owner(r) ==
  /\ req[r].pc = "handler" /\ req[r].kind \in {"update_item", "delete_item"}
  /\ LET existing == SelectOwned(items, req[r].item_id, req[r].user.id) IN
       req' = [req EXCEPT ![r] =
                 IF existing = {}
                 THEN Done("items", req[r].kind, req[r].token, HandlerExcept(404), {})
                 ELSE [req[r] EXCEPT !.pc = "write"]]
  /\ UNCHANGED <<lifespan, super_client, postgrest_auth, items, next_id>>
  /\ UNCHANGED aux

\* .update(item_in.model_dump()).eq("id", item_id): the row with the body's
\* id, title and description; user_id is not among the written columns.
UpdatedRow(row, body) ==
  [row EXCEPT !.id = body.id, !.title = body.title, !.description = body.description]

\* PUT /items/{item_id}, second query.
update_item(r) ==
  /\ req[r].pc = "write" /\ req[r].kind = "update_item"
  /\ \E body \in UpdateBodies(1..(next_id - 1)) :
       LET target == SelectById(items, req[r].item_id)
           written == {UpdatedRow(row, body) : row \in target}
       IN IF target = {}
          THEN \* no row: response.data is empty, the 400 is raised in the try block
               /\ req' = [req EXCEPT ![r] = Done("items", "update_item", req[r].token,
                                                 HandlerExcept(400), {})]
               /\ UNCHANGED items
          ELSE IF body.id # req[r].item_id /\ SelectById(items, body.id) # {}
          THEN \* the new id is taken: the update raises
               /\ req' = [req EXCEPT ![r] = Done("items", "update_item", req[r].token,
                                                 HandlerExcept(409), {})]
               /\ UNCHANGED items
          ELSE /\ items' = (items \ target) \cup written
               /\ req' = [req EXCEPT ![r] = Done("items", "update_item", req[r].token, 200,
                                                 {Item(row) : row \in written})]
  /\ UNCHANGED <<lifespan, super_client, postgrest_auth, next_id>>
  /\ UNCHANGED aux

\* DELETE /items/{item_id}, second query.
delete_item(r) ==
  /\ req[r].pc = "write" /\ req[r].kind = "delete_item"
  /\ LET target == SelectById(items, req[r].item_id) IN
       IF target = {}
       THEN /\ req' = [req EXCEPT ![r] = Done("items", "delete_item", req[r].token,
                                              HandlerExcept(400), {})]
            /\ UNCHANGED items
       ELSE /\ items' = items \ target
            /\ req' = [req EXCEPT ![r] = Done("items", "delete_item", req[r].token, 200,
                                              {Item(row) : row \in target})]
  /\ UNCHANGED <<lifespan, super_client, postgrest_auth, next_id>>
  /\ UNCHANGED aux

\* ------------------------------------------------------- the role gate
\* role_checker's second dependency: get_auth_service().
get_auth_service(r) ==
  /\ req[r].pc = "auth_service"
  /\ req' = [req EXCEPT ![r] =
               IF ~super_client
               THEN Done("gated", "", req[r].token, 500, {})
               ELSE [req[r] EXCEPT !.pc = "role_check"]]
  /\ UNCHANGED <<lifespan, super_client, postgrest_auth, items, next_id>>
  /\ UNCHANGED aux

\* role_checker: validate_roles(user, [role.value for role in roles]);
\* the PermissionError is re-raised, otherwise the user is returned.
role_checker(r) ==
  /\ req[r].pc = "role_check"
  /\ req' = [req EXCEPT ![r] = [req[r] EXCEPT !.pc = "done",
                 !.status = ValidateRoles(req[r].user, req[r].required)]]
  /\ UNCHANGED <<lifespan, super_client, postgrest_auth, items, next_id>>
  /\ UNCHANGED aux

\* The response has been sent; the task is free for the next request.
respond(r) ==
  /\ req[r].pc = "done"
  /\ req' = [req EXCEPT ![r] = IdleReq]
  /\ UNCHANGED <<lifespan, super_client, postgrest_auth, items, next_id>>
  /\ UNCHANGED aux

\* The application serving the item routes.
Next ==
  \/ init_super_client
  \/ init_super_client_fails
  \/ \E r \in Reqs :
       \/ item_request(r)
       \/ get_current_user(r)
       \/ create_item(r)
       \/ read_items(r)
       \/ read_item(r)
       \/ verify_owner(r)
       \/ update_item(r)
       \/ delete_item(r)
       \/ respond(r)

Spec == Init /\ [][Next]_vars

\* The application serving routes guarded by has_roles.
GateNext ==
  \/ init_super_client
  \/ init_super_client_fails
  \/ \E r \in Reqs :
       \/ gated_request(r)
       \/ get_current_user(r)
       \/ get_auth_service(r)
       \/ role_checker(r)
       \/ respond(r)

GateSpec == Init /\ [][GateNext]_vars

TypeOK ==
  /\ lifespan \in {"startup", "serving", "stopping", "stopped", "failed"}
  /\ super_client \in BOOLEAN
  /\ postgrest_auth \in Tokens \cup {NoToken}
  /\ next_id \in 1..(MaxItems + 1)
  /\ \A row \in items : row.id \in ItemIds /\ row.user_id \in UserIds
  /\ \A r \in Reqs : req[r].pc \in {"idle", "get_user", "handler", "write",
                                      "auth_service", "role_check", "done"}

\* ------------------------------------------------- POST /auth/token
\* The password accounts of the auth provider.
LoginAccounts ==
  [email \in {"alice@example.com", "eve@example.com"} |->
     IF email = "alice@example.com"
     THEN [password |-> "pw_alice", confirmed |-> TRUE, access_token |-> "tok_alice"]
     ELSE [password |-> "pw_eve", confirmed |-> FALSE, access_token |-> "tok_eve"]]

\* HTTP Basic credentials a client may send.
Credentials ==
  [username : DOMAIN LoginAccounts \cup {"nobody@example.com"},
   password : {"pw_alice", "pw_eve"}]

\* client.auth.sign_in_with_password: what the provider may answer.  "ok" is
\* a response with user and session; "no_user" and "no_session" are responses
\* lacking one of them; the others are AuthApiErrors.
SignInOutcomes(creds) ==
  IF creds.username \notin DOMAIN LoginAccounts
       \/ LoginAccounts[creds.username].password # creds.password
  THEN {"invalid_login", "other_api_error"}
  ELSE IF ~LoginAccounts[creds.username].confirmed
  THEN {"not_confirmed", "other_api_error"}
  ELSE {"ok", "no_user", "no_session", "other_api_error"}

\* `except Exception` of get_test_token: catches what the try block raised
\* and was not an AuthApiError, the handler's own HTTPException included.
TokenExcept(raised) == 500

\* The try/except of get_test_token, by the provider's answer.
TokenStatus(outcome) ==
  CASE outcome = "ok" -> 200
    [] outcome \in {"no_user", "no_session"} -> TokenExcept(401)
    [] outcome = "invalid_login" -> 401
    [] outcome = "not_confirmed" -> 403
    [] OTHER -> 400

\* POST /auth/token arrives: HTTPBasic(auto_error=False), the credentials
\* check, then the await on the provider.
token_request(r) ==
  /\ lifespan = "serving"
  /\ login[r].pc = "idle"
  /\ \E creds \in Credentials \cup {NoCredentials} :
       login' = [login EXCEPT ![r] =
                   IF creds = NoCredentials
                   THEN [IdleLogin EXCEPT !.pc = "done", !.status = 401]
                   ELSE [IdleLogin EXCEPT !.pc = "sign_in", !.creds = creds]]
  /\ UNCHANGED <<lifespan, super_client, postgrest_auth, items, next_id, req, crud, su, life>>

\* get_test_token resumes with the provider's answer.
get_test_token(r) ==
  /\ login[r].pc = "sign_in"
  /\ \E outcome \in SignInOutcomes(login[r].creds) :
       login' = [login EXCEPT ![r] =
                   [login[r] EXCEPT !.pc = "done", !.outcome = outcome,
                      !.status = TokenStatus(outcome),
                      !.access_token = IF TokenStatus(outcome) = 200
                                       THEN LoginAccounts[login[r].creds.username].access_token
                                       ELSE ""]]
  /\ UNCHANGED <<lifespan, super_client, postgrest_auth, items, next_id, req, crud, su, life>>

\* The token response has been sent.
respond_token(r) ==
  /\ login[r].pc = "done"
  /\ login' = [login EXCEPT ![r] = IdleLogin]
  /\ UNCHANGED <<lifespan, super_client, postgrest_auth, items, next_id, req, crud, su, life>>

\* The application serving the token route.
LoginNext ==
  \/ init_super_client
  \/ init_super_client_fails
  \/ \E r \in Reqs :
       \/ token_request(r)
       \/ get_test_token(r)
       \/ respond_token(r)

LoginSpec == Init /\ [][LoginNext]_vars

\* ------------------------------------------------------------ shutdown
\* The server is told to stop: it accepts no further request and lets the
\* requests in flight finish before the lifespan generator is resumed.
stop_serving ==
  /\ lifespan = "serving"
  /\ lifespan' = "stopping"
  /\ UNCHANGED <<super_client, postgrest_auth, items, next_id, req>>
  /\ UNCHANGED aux

\* lifespan(), finally: await close_super_client(), after the last response
\* of a run that served, or right after a failed start-up.  It closes the
\* handle when there is one and unsets it.
close_super_client ==
  /\ \/ lifespan = "stopping" /\ \A r \in Reqs : req[r].pc = "idle"
     \/ lifespan = "failed"
  /\ lifespan' = "stopped"
  /\ super_client' = FALSE
  /\ life' = [life EXCEPT !.closes = IF super_client THEN @ + 1 ELSE @]
  /\ UNCHANGED <<postgrest_auth, items, next_id, req, login, crud, su>>

\* The whole run of the application serving the item routes.
LifeNext ==
  \/ Next
  \/ stop_serving
  \/ close_super_client

LifeSpec == Init /\ [][LifeNext]_vars

\* ------------------------------------------------- generic repository
\* item_repository = CRUDBase(Item), called with a client `db`.  A call sends
\* one query (execute), the await resumes with the response or with the
\* client's exception, and the method returns or raises to its caller.
RepoOps == {"get", "get_all", "get_multi_by_owner", "create", "update", "delete"}
\* The owners the repository is called for.
RepoOwners == {"alice", "bob"}

\* ItemCreate: title is required, description and user_id default to None.
CreateInputs ==
  [id : {0}, title : Titles, description : Descriptions \cup {ABSENT},
   user_id : RepoOwners \cup {NULL}]
\* ItemUpdate: an id, title and description both optional.
UpdateInputs ==
  [id : ItemIds, title : Titles \cup {ABSENT}, description : Descriptions \cup {ABSENT},
   user_id : {ABSENT}]
\* get(id), delete(id)
IdInputs == [id : ItemIds, title : {ABSENT}, description : {ABSENT}, user_id : {ABSENT}]
\* get_multi_by_owner(user)
OwnerInputs == [id : {0}, title : {ABSENT}, description : {ABSENT}, user_id : RepoOwners]

RepoInputs(op) ==
  CASE op = "create" -> CreateInputs
    [] op = "update" -> UpdateInputs
    [] op \in {"get", "delete"} -> IdInputs
    [] op = "get_multi_by_owner" -> OwnerInputs
    [] OTHER -> {NoInput}

\* obj_in.model_dump(): every field of the model, a field the caller left
\* out with its default None.
ModelDump(obj) ==
  [f \in {"title", "description", "user_id"} |-> IF obj[f] = ABSENT THEN NULL ELSE obj[f]]

\* The row the table stores for an insert, without the description (a
\* variant in which the column is dropped).
Inserted_NoDescription(id, values) ==
  [id |-> id, title |-> values.title, description |-> NULL,
   user_id |-> values.user_id, creator |-> values.user_id]
\* The row the table stores for .insert(values): the id is the table's.
Inserted(id, values) ==
  [id |-> id, title |-> values.title, description |-> values.description,
   user_id |-> values.user_id, creator |-> values.user_id]

\* Nothing indexes an empty response (a variant).
RaisesOnEmpty_Never(op) == FALSE
\* self.model(**response.data[0]) without a guard: IndexError on no row.
RaisesOnEmpty(op) == op \in {"create", "update", "delete"}

\* The method ends: with the records built from response.data, or raising.
Returned(data) == [crud EXCEPT !.pc = "returned", !.result = data]
Raised(error) == [crud EXCEPT !.pc = "raised", !.error = error]
Outcome(data) ==
  IF data = {} /\ RaisesOnEmpty(crud.op) THEN Raised("IndexError") ELSE Returned(data)
\* An update or a delete of the record a create returned ends the memory of it.
Forget(c, ids) == IF c.last.id \in ids THEN [c EXCEPT !.last = NoLast] ELSE c

\* What no repository call touches.
notRepo == <<lifespan, super_client, postgrest_auth, req, login, su, life>>

\* await db.table(...)....execute(): the one query of the call is sent.
execute ==
  /\ crud.pc = "ready"
  /\ \E op \in RepoOps : \E input \in RepoInputs(op) :
       /\ op = "create" => next_id <= MaxItems
       /\ crud' = [crud EXCEPT !.pc = "sent", !.op = op, !.input = input,
                               !.trips = @ + 1]
  /\ UNCHANGED <<items, next_id>>
  /\ UNCHANGED notRepo

\* The query fails or its bounded wait expires, and the method sends it
\* again (a variant with a retry).
store_raises_retry ==
  /\ crud.pc = "sent" /\ crud.trips = 1
  /\ crud' = [crud EXCEPT !.trips = @ + 1]
  /\ UNCHANGED <<items, next_id>>
  /\ UNCHANGED notRepo

\* The query fails or its bounded wait expires: no method has a try block,
\* the client's exception goes to the caller.
store_raises ==
  /\ crud.pc = "sent"
  /\ crud' = Raised("timeout")
  /\ UNCHANGED <<items, next_id>>
  /\ UNCHANGED notRepo

get ==
  /\ crud.pc = "sent" /\ crud.op = "get"
  /\ crud' = Outcome(SelectById(items, crud.input.id))
  /\ UNCHANGED <<items, next_id>>
  /\ UNCHANGED notRepo

get_all ==
  /\ crud.pc = "sent" /\ crud.op = "get_all"
  /\ crud' = Outcome(items)
  /\ UNCHANGED <<items, next_id>>
  /\ UNCHANGED notRepo

get_multi_by_owner ==
  /\ crud.pc = "sent" /\ crud.op = "get_multi_by_owner"
  /\ crud' = Outcome(SelectByOwner(items, crud.input.user_id))
  /\ UNCHANGED <<items, next_id>>
  /\ UNCHANGED notRepo

\* insert(obj_in.model_dump()): user_id is a required column (ItemInDB), a
\* row without one is rejected by the table.
create ==
  /\ crud.pc = "sent" /\ crud.op = "create"
  /\ LET values == ModelDump(crud.input)
         row == Inserted(next_id, values)
     IN IF values.user_id = NULL
        THEN /\ crud' = Raised("APIError")
             /\ UNCHANGED <<items, next_id>>
        ELSE /\ items' = items \cup {row}
             /\ next_id' = next_id + 1
             /\ crud' = [Outcome({row}) EXCEPT !.last = [id |-> row.id, input |-> crud.input]]
  /\ UNCHANGED notRepo

\* update(obj_in.model_dump(exclude={"id"})).eq("id", obj_in.id): title is a
\* required column (ItemInDB), a matched row cannot take a null title.
update ==
  /\ crud.pc = "sent" /\ crud.op = "update"
  /\ LET values == ModelDump(crud.input)
         target == SelectById(items, crud.input.id)
         written == {[row EXCEPT !.title = values.title,
                                 !.description = values.description] : row \in target}
     IN IF target # {} /\ values.title = NULL
        THEN /\ crud' = Raised("APIError")
             /\ UNCHANGED items
        ELSE /\ items' = (items \ target) \cup written
             /\ crud' = Forget(Outcome(written), {row.id : row \in target})
  /\ UNCHANGED next_id
  /\ UNCHANGED notRepo

delete ==
  /\ crud.pc = "sent" /\ crud.op = "delete"
  /\ LET target == SelectById(items, crud.input.id)
     IN /\ items' = items \ target
        /\ crud' = Forget(Outcome(target), {row.id : row \in target})
  /\ UNCHANGED next_id
  /\ UNCHANGED notRepo

\* The caller has the result or the exception; the next call starts afresh.
complete ==
  /\ crud.pc \in {"returned", "raised"}
  /\ crud' = [IdleCrud EXCEPT !.last = crud.last]
  /\ UNCHANGED <<items, next_id>>
  /\ UNCHANGED notRepo

CrudNext ==
  \/ execute
  \/ store_raises
  \/ get
  \/ get_all
  \/ get_multi_by_owner
  \/ create
  \/ update
  \/ delete
  \/ complete

CrudSpec == Init /\ [][CrudNext]_vars

\* ------------------------------------------- serving without start-up
\* The application object answers requests although its lifespan has not
\* run (a server that sends no lifespan events): super_client is still None.
UnsetInit ==
  /\ lifespan = "serving"
  /\ super_client = FALSE
  /\ postgrest_auth = NoToken
  /\ items = {}
  /\ next_id = 1
  /\ req = [r \in Reqs |-> IdleReq]
  /\ login = IdleLogin
  /\ crud = IdleCrud
  /\ su = IdleSu
  /\ life = [inits |-> 0, closes |-> 0]

UnsetNext ==
  \E r \in Reqs :
    \/ item_request(r)
    \/ gated_request(r)
    \/ respond(r)

UnsetSpec == UnsetInit /\ [][UnsetNext]_vars

\* ---------------------------------------------------- create_superuser
\* The script is run from the command line against the auth provider, which
\* keeps at most one account per email.  su.accounts holds the accounts
\* with SUPERUSER_EMAIL, su.existed whether one existed when the run
\* started, su.called whether the run called admin.create_user.
MaxRuns == 2
SUPERUSER_PASSWORD == "su_password"
Passwords == {SUPERUSER_PASSWORD, "other"}
\* user_metadata as create_superuser writes it.
AdminMetadata == Metadata({"roles", "is_superuser"}, {"admin"})
\* user_metadata an account with that email may carry.
SuMetadata == {NoMetadata, Metadata({"roles"}, {"user"}), AdminMetadata}
SuAccounts == [password : Passwords, confirmed : BOOLEAN, metadata : SuMetadata]

\* not user.user_metadata or "roles" not in user.user_metadata
LacksRoles(meta) == meta.none \/ meta.keys = {} \/ "roles" \notin meta.keys

\* sign_in_with_password with the configured password: the session, or the
\* message of the AuthApiError.
SuSignIn(accounts) ==
  IF \E a \in accounts : a.password = SUPERUSER_PASSWORD /\ a.confirmed THEN "ok"
  ELSE IF \E a \in accounts : a.password = SUPERUSER_PASSWORD THEN "Email not confirmed"
  ELSE "Invalid login credentials"

notSu == <<lifespan, super_client, postgrest_auth, items, next_id, req, login, crud, life>>

\* Somebody registers an account with the superuser's email through the
\* provider (sign-up or dashboard), with a password and metadata of their own.
sign_up ==
  /\ su.accounts = {}
  /\ \E a \in SuAccounts : su' = [su EXCEPT !.accounts = {a}]
  /\ UNCHANGED notSu

\* A run starts: without SUPABASE_SERVICE_KEY it raises at once, otherwise
\* the two clients are created and the sign-in is awaited.
create_superuser ==
  /\ su.pc = "idle" /\ su.runs < MaxRuns
  /\ \E service_key \in BOOLEAN :
       su' = [su EXCEPT !.pc = IF service_key THEN "sign_in" ELSE "failed",
                        !.existed = su.accounts # {}, !.called = FALSE, !.runs = @ + 1]
  /\ UNCHANGED notSu

\* The sign-in answers.  Signed in: the metadata update is sent when the
\* roles are missing, else the run returns.  "Invalid login credentials":
\* admin.create_user is called.  Any other error is re-raised.
sign_in_with_password ==
  /\ su.pc = "sign_in"
  /\ LET answer == SuSignIn(su.accounts) IN
       su' = IF answer = "ok"
             THEN [su EXCEPT !.pc = IF \E a \in su.accounts : LacksRoles(a.metadata)
                                    THEN "update" ELSE "done"]
             ELSE IF answer = "Invalid login credentials"
             THEN [su EXCEPT !.pc = "create", !.called = TRUE]
             ELSE [su EXCEPT !.pc = "failed"]
  /\ UNCHANGED notSu

\* admin.update_user_by_id answers: the account has the admin metadata.
update_user_by_id ==
  /\ su.pc = "update"
  /\ su' = [su EXCEPT !.pc = "done",
                      !.accounts = {[a EXCEPT !.metadata = AdminMetadata] : a \in su.accounts}]
  /\ UNCHANGED notSu

\* admin.create_user answers: the provider refuses a second account with
\* the email, otherwise the confirmed admin account exists.
create_user ==
  /\ su.pc = "create"
  /\ su' = IF su.accounts # {}
           THEN [su EXCEPT !.pc = "failed"]
           ELSE [su EXCEPT !.pc = "done",
                           !.accounts = {[password |-> SUPERUSER_PASSWORD, confirmed |-> TRUE,
                                          metadata |-> AdminMetadata]}]
  /\ UNCHANGED notSu

\* The process exits; the script can be run again.
su_exit ==
  /\ su.pc \in {"done", "failed"}
  /\ su' = [su EXCEPT !.pc = "idle", !.existed = FALSE, !.called = FALSE]
  /\ UNCHANGED notSu

SuNext ==
  \/ sign_up
  \/ create_superuser
  \/ sign_in_with_password
  \/ update_user_by_id
  \/ create_user
  \/ su_exit

SuSpec == Init /\ [][SuNext]_vars

\* ================================================================ claims
\* Steps of a request, as seen in a pair of states.
Resolved(r) == req[r].user # NoUser
FirstQuery(r) == req[r].pc = "handler" /\ req'[r].pc # "handler"
SecondQuery(r) == req[r].pc = "write" /\ req'[r].pc = "done"
SendsQuery(r) ==
  \/ req[r].pc = "get_user" /\ req'[r].pc = "handler"
  \/ req[r].pc = "handler" /\ req'[r].pc = "write"
Foreign(r, rows) == {row \in rows : row.user_id # req[r].user.id}

\* C1 (as claimed): a read made with B's token of an item created by another
\* user yields a permission failure (403) and never returns the item's data:
\* GET /items/{id} of a foreign item answers 403 without data, and GET /items
\* carries no foreign row.
C1_CrossUserRead ==
  [][\A r \in Reqs :
       /\ (FirstQuery(r) /\ req[r].kind = "read_item"
             /\ Foreign(r, SelectById(items, req[r].item_id)) # {})
            => (req'[r].status = 403 /\ req'[r].data = {})
       /\ (FirstQuery(r) /\ req[r].kind \in {"read_item", "read_items"})
            => (\A row \in req'[r].data : row.user_id = req[r].user.id)]_vars

\* C2 (as claimed): GET, PUT and DELETE /items/{id} with a valid token answer
\* 404 when no row has the id, 403 when the row belongs to another user, and
\* succeed only when the row exists and belongs to the caller.
C2_StatusById ==
  [][\A r \in Reqs :
       (FirstQuery(r) /\ req[r].kind \in {"read_item", "update_item", "delete_item"})
       => LET rows == SelectById(items, req[r].item_id) IN
            /\ rows = {} => (req'[r].pc = "done" /\ req'[r].status = 404)
            /\ (rows # {} /\ Foreign(r, rows) # {})
                 => (req'[r].pc = "done" /\ req'[r].status = 403)
            /\ (req'[r].pc = "write" \/ req'[r].status = 200)
                 => (rows # {} /\ Foreign(r, rows) = {})]_vars

\* C3 (as claimed): a stored row changes or disappears only in the write of
\* a PUT or DELETE made by the row's owner.
C3_OwnerOnlyMutation ==
  [][\A row \in items :
       row \notin items'
       => \E r \in Reqs : /\ SecondQuery(r)
                           /\ req[r].kind \in {"update_item", "delete_item"}
                           /\ req[r].user.id = row.user_id]_vars

\* C4: every row of the table has the user_id of the user whose POST /items
\* inserted it, whatever user_id the request body carried.
C4_OwnerIsCreator ==
  \A row \in items : row.user_id = row.creator

\* C4 witness: POST /items of two different users have inserted rows, and a
\* POST has just answered with the row it inserted.
C4_Witness ==
  /\ \E a, b \in items : a.creator = "alice" /\ b.creator = "bob"
  /\ \E r \in Reqs : /\ req[r].pc = "done" /\ req[r].kind = "create_item"
                      /\ req[r].status = 200
                      /\ \E row \in items : Item(row) \in req[r].data

\* C5 (as claimed): every query a request sends to the table is sent with
\* that request's own bearer token.
C5_OwnToken ==
  [][\A r \in Reqs : SendsQuery(r) => postgrest_auth = req[r].token]_vars

\* C6 (as claimed): an item request with a missing or invalid bearer token
\* answers 401, carries no data and never reaches a handler.
C6_Unauthorized ==
  \A r \in Reqs :
    (req[r].route = "items" /\ req[r].token \notin ValidTokens)
    => /\ req[r].pc \in {"get_user", "done"}
       /\ req[r].pc = "done" => (req[r].status = 401 /\ req[r].data = {})

\* C7 (as claimed): for a valid token the identity resolver never fails and
\* returns the id of the account the token belongs to.
C7_ValidTokenResolves ==
  \A r \in Reqs :
    req[r].token \in ValidTokens
    => /\ req[r].pc = "done" => req[r].status # 401
       /\ Resolved(r) => req[r].user.id = Accounts[req[r].token].id

\* C8 (as claimed): when the account's metadata supplies no roles, the
\* resolved user has roles {"user"}.
C8_DefaultRoles ==
  \A r \in Reqs :
    (Resolved(r) /\ "roles" \notin Accounts[req[r].token].user_metadata.keys)
    => req[r].user.roles = {"user"}

\* C9: a request that reached the role check with a non-empty required set
\* proceeds (200, returning the user) iff the user's roles and the required
\* set intersect, and otherwise gets 403, never 401.
C9_RoleGate ==
  \A r \in Reqs :
    (req[r].route = "gated" /\ req[r].pc = "done" /\ Resolved(r) /\ req[r].required # {})
    => /\ req[r].status \in {200, 403}
       /\ req[r].status = 200 <=> (req[r].user.roles \cap req[r].required) # {}

\* C9 witness: roles {"user"} against required {"admin"} was rejected with
\* 403 and roles {"user","admin"} against required {"admin"} succeeded.
C9_Witness ==
  \E r1, r2 \in Reqs :
    /\ req[r1].pc = "done" /\ req[r1].user.roles = {"user"}
    /\ req[r1].required = {"admin"} /\ req[r1].status = 403
    /\ req[r2].pc = "done" /\ req[r2].user.roles = {"user", "admin"}
    /\ req[r2].required = {"admin"} /\ req[r2].status = 200

\* C10: the role gate's own dependencies and check run only for a request
\* whose identity has been resolved from its token, and a request whose token
\* fails resolution ends with 401 without a user or a role verdict.
C10_AuthBeforeRoles ==
  \A r \in Reqs :
    req[r].route = "gated"
    => /\ (req[r].pc \in {"auth_service", "role_check"} \/ Resolved(r))
            => /\ GetCurrentUser(req[r].token).status = 200
               /\ req[r].user = GetCurrentUser(req[r].token).user
       /\ (req[r].pc = "done" /\ req[r].token \in Tokens
             /\ GetCurrentUser(req[r].token).status # 200)
            => (req[r].status = 401 /\ ~Resolved(r))

\* C10 witness: one request ended with 401 at identity resolution while
\* another, resolved, has its roles checked.
C10_Witness ==
  \E r1, r2 \in Reqs :
    /\ req[r1].route = "gated" /\ req[r1].pc = "done"
    /\ req[r1].token = "bad" /\ req[r1].status = 401
    /\ req[r2].route = "gated" /\ req[r2].pc = "done"
    /\ Resolved(r2) /\ req[r2].status = 403

\* C11 (as claimed): POST /auth/token answers 200 with a non-empty
\* access_token for valid credentials, 401 when no credentials are sent, the
\* provider reports an invalid login or its response lacks the user or the
\* session, and 403 for an unconfirmed account.
C11_TokenOutcome ==
  \A r \in Reqs :
    login[r].pc = "done"
    => /\ login[r].outcome = "ok" => (login[r].status = 200 /\ login[r].access_token # "")
       /\ (login[r].creds = NoCredentials
             \/ login[r].outcome \in {"invalid_login", "no_user", "no_session"})
            => login[r].status = 401
       /\ login[r].outcome = "not_confirmed" => login[r].status = 403

C13_ErrorStatus ==
  [][\A r \in Reqs :
       /\ (req[r].route = "items" /\ req[r].pc = "get_user" /\ req'[r].pc = "done")
            => req'[r].status = 401
       /\ (FirstQuery(r) /\ req[r].kind \in {"read_item", "update_item", "delete_item"}
             /\ SelectOwned(items, req[r].item_id, req[r].user.id) = {})
            => req'[r].status = 404
       /\ (SecondQuery(r) /\ SelectById(items, req[r].item_id) = {})
            => req'[r].status = 400
       /\ ((FirstQuery(r) \/ SecondQuery(r)) /\ req'[r].status = 500)
            => (req[r].kind = "update_item" /\ SelectById(items, req[r].item_id) # {})]_vars

\* Steps of a repository call, as seen in a pair of states.
Answers(op) == crud.pc = "sent" /\ crud.op = op /\ crud'.pc # "sent"
Ids(rows) == {row.id : row \in rows}

\* C14: every repository operation makes exactly one round trip to the
\* store: an answer or an error reaches the caller only from the query in
\* flight, after one send, and a failed or timed-out query ends the call
\* with the error instead of being sent again.
C14_OneRoundTrip ==
  [][/\ crud'.pc \in {"sent", "returned", "raised"} => crud'.trips = 1
     /\ (crud'.pc \in {"returned", "raised"} /\ crud.pc # crud'.pc) => crud.pc = "sent"
     /\ (crud.pc = "sent" /\ crud' # crud) => crud'.pc \in {"returned", "raised"}]_vars

\* A query timed out and the caller has the error after one round trip.
C14_Witness ==
  crud.pc = "raised" /\ crud.error = "timeout" /\ crud.trips = 1 /\ crud.op = "update"

\* C15 (as claimed): a returning update(input) leaves every other record as
\* it was, keeps the record's id and owner, sets the fields present on input
\* and keeps the fields absent from it, and returns the updated record.
C15_UpdateFrame ==
  [][(Answers("update") /\ crud'.pc = "returned") =>
       /\ \A row \in items : row.id # crud.input.id => row \in items'
       /\ Ids(items') = Ids(items)
       /\ \A row \in SelectById(items, crud.input.id) :
            \E new \in items' :
              /\ new.id = row.id /\ new.user_id = row.user_id
              /\ new.title = IF crud.input.title = ABSENT THEN row.title
                             ELSE crud.input.title
              /\ new.description = IF crud.input.description = ABSENT THEN row.description
                                   ELSE crud.input.description
              /\ crud'.result = {new}]_vars

\* C16: when no record has the id, get answers none, update and delete
\* raise, and the table is left as it was.
C16_AbsentIds ==
  [][\A op \in {"get", "update", "delete"} :
       (Answers(op) /\ SelectById(items, crud.input.id) = {}) =>
         /\ items' = items
         /\ (op = "get" /\ crud'.error # "timeout") =>
              (crud'.pc = "returned" /\ crud'.result = {})
         /\ op # "get" => crud'.pc = "raised"]_vars

\* An update of an id no record has ended on the empty response.
C16_Witness ==
  /\ crud.pc = "raised" /\ crud.op = "update" /\ crud.error = "IndexError"
  /\ SelectById(items, crud.input.id) = {} /\ items # {}

\* C17: a get of the id a create returned, with no update or delete of that
\* record in between, answers one record equal to the create's input on
\* every field the input carried; and every returning create adds one
\* record under an id no record had, the earlier create's included.
C17_RoundTrip ==
  [][/\ (Answers("get") /\ crud'.pc = "returned" /\ crud.last # NoLast
          /\ crud.input.id = crud.last.id) =>
          \E row \in crud'.result :
            /\ crud'.result = {row}
            /\ \A f \in {"title", "description", "user_id"} :
                 crud.last.input[f] # ABSENT => row[f] = crud.last.input[f]
     /\ (Answers("create") /\ crud'.pc = "returned") =>
          \E row \in crud'.result :
            /\ row.id \notin Ids(items) /\ items' = items \cup {row}
            /\ crud.last # NoLast => row.id # crud.last.id]_vars

\* The record of a create with a description has been read back after a
\* second create with the same input.
C17_Witness ==
  /\ crud.pc = "returned" /\ crud.op = "get" /\ crud.input.id = crud.last.id
  /\ crud.last.input.description = "d1" /\ crud.last.id = 2
  /\ \E a, b \in items : a.id = 1 /\ b.id = 2 /\ a.description = "d1"
                         /\ a.user_id = b.user_id

\* C18 (as claimed): a PUT /items/{item_id} answered 200 leaves every other
\* item as it was and keeps the id and the user_id of the item the path
\* addresses, whatever the body contains.
C18_PutFrame ==
  [][\A r \in Reqs :
       (SecondQuery(r) /\ req[r].kind = "update_item" /\ req'[r].status = 200) =>
         /\ \A row \in items : row.id # req[r].item_id => row \in items'
         /\ \A row \in SelectById(items, req[r].item_id) :
              \E new \in items' : new.id = row.id /\ new.user_id = row.user_id
         /\ Ids(items') = Ids(items)]_vars

\* C19 (as claimed): while super_client is unset, a request that carries a
\* token is answered 500 by the first dependency that needs the handle; no
\* request waits on the auth provider or the table, no header is set on the
\* handle and no handler runs.
C19_Uninitialized ==
  ~super_client =>
    /\ postgrest_auth = NoToken /\ items = {}
    /\ \A r \in Reqs :
         /\ req[r].pc \in {"idle", "done"}
         /\ (req[r].pc = "done" /\ req[r].token # NoToken) => req[r].status = 500

\* C20 (as claimed): there is never more than one account with the
\* superuser's email, a run that started with the account in place does
\* not call admin.create_user, and a run that ended without an error
\* leaves the account in place with "admin" among its roles.
C20_SuperuserOnce ==
  /\ Cardinality(su.accounts) <= 1
  /\ su.called => ~su.existed
  /\ su.pc = "done" => \E a \in su.accounts : "admin" \in a.metadata.roles

====
